---------------------------- MODULE Spec2Model ----------------------------
(***************************************************************************)
(* The bar chart component of ng-charts as a state machine.                *)
(*                                                                         *)
(* Three copies of the component are in the repository:                    *)
(*   src/src/lib/barChart/barChart.component.ts   ("lib")                  *)
(*   src/src/app/barchart/barchart.component.ts   ("app")                  *)
(*   src/unnamed/part_000                         ("part_000")             *)
(* "lib" is "app" with other default sizes and with getData and the scale  *)
(* construction moved behind DataService; the two run the same code and    *)
(* are the variant "barchart", whose scales are modelled from the inline   *)
(* d3 calls of "app". In "part_000" ngOnChanges does not draw and the bars *)
(* get class, width and x from the transition.                             *)
(*                                                                         *)
(* A JavaScript value that may be undefined/null/NaN is a tuple of length  *)
(* at most one: << >> is undefined, null or NaN, <<v>> is the value v.     *)
(***************************************************************************)
EXTENDS Integers, Sequences, FiniteSets, TLC

\* ------------------------------------------------------------------ bounds
MaxChanges == 2    \* change notifications in one behaviour
Frames == 2        \* timer ticks from the start to the end of a transition

\* ------------------------------------------------------- program constants
LibHeight == 400
LibMargin == 60
AppHeight == 600
AppMargin == 50
DefaultWidth == 400
LabelLift == 5

\* ------------------------------------------------------- optional values
None == << >>
Some(v) == <<v>>
NaN == << >>
Num(n) == <<n>>
IsNum(a) == a # NaN

\* a - b of JavaScript numbers: NaN when either side is NaN
Minus(a, b) == IF IsNum(a) /\ IsNum(b) THEN Num(a[1] - b[1]) ELSE NaN

\* Math.round(n / d), d # 0: halves go towards +Infinity
RoundDiv(n, d) ==
    IF d > 0 THEN (2 * n + d) \div (2 * d)
    ELSE (2 * (0 - n) + (0 - d)) \div (2 * (0 - d))

\* ----------------------------------------------------------------- inputs
Variants == {"barchart", "part_000"}
Cats == <<"A", "B", "C">>
\* the Y series of the datasets: the two series of the re-render scenario, a
\* series with a negative value, an all-zero and an all-negative one, and
\* the empty dataset
Series ==
    { <<10, 20, 5>>, <<30, 20, 5>>, <<0 - 5, 10>>,
      <<0, 0>>, <<0 - 5, 0 - 2>>, << >> }
\* the series s as records with fields cat and val
Rows(s) == [i \in 1..Len(s) |-> [cat |-> Cats[i], val |-> s[i]]]
Datasets == {Rows(s) : s \in Series}
DataInputs == {None} \cup {Some(d) : d \in Datasets}

Square(m) == [top |-> m, right |-> m, bottom |-> m, left |-> m]
\* the values of the @Input fields that are not bound
Default(v) ==
    IF v = "lib"
    THEN [width |-> DefaultWidth, height |-> LibHeight, margins |-> Square(LibMargin)]
    ELSE [width |-> DefaultWidth, height |-> AppHeight, margins |-> Square(AppMargin)]
\* the configurations a change notification may bind
Configs ==
    { Default("lib"), Default("app"),
      [width |-> 100, height |-> 90, margins |-> Square(50)] }

\* ------------------------------------------------------------------ state
VARIABLES
    variant,      \* which copy of the component runs
    d3Collapsed,  \* what the installed d3 returns for a collapsed linear domain
    pc,           \* lifecycle position of the component
    width, height, margins, data, x, y,   \* @Input fields
    chartWidth, chartHeight,              \* derived plotting area
    chart,        \* handle of the canvas group, None before makeChartCanvas
    xScale, yScale, xData, yData,
    nodes,        \* children of the canvas group, in document order
    error,        \* what the last lifecycle hook threw
    drawn,        \* the datasets passed to draw so far, in order
    changes       \* number of change notifications so far

vars == <<variant, d3Collapsed, pc, width, height, margins, data, x, y,
          chartWidth, chartHeight, chart, xScale, yScale, xData, yData,
          nodes, error, drawn, changes>>

\* number of draw calls so far
renders == Len(drawn)

inputVars == <<width, height, margins, data, x, y>>
scaleVars == <<xScale, yScale, xData, yData>>

\* ------------------------------------------------------------ d3 and data
\* data.map(d => d[dataElement])
getData(dataSet, dataElement) ==
    [i \in 1..Len(dataSet) |-> dataSet[i][dataElement]]

RECURSIVE Distinct(_)
\* the domain of a band scale keeps the first occurrence of every value
Distinct(s) ==
    IF s = << >> THEN << >>
    ELSE LET r == Distinct(SubSeq(s, 1, Len(s) - 1))
             v == s[Len(s)]
         IN IF \E i \in 1..Len(r) : r[i] = v THEN r ELSE Append(r, v)

\* d3.max(values): undefined for an empty array
Max(values) ==
    IF values = << >> THEN NaN
    ELSE Num(CHOOSE m \in {values[i] : i \in 1..Len(values)} :
                \A i \in 1..Len(values) : values[i] <= m)

\* d3.scaleBand().domain(values).rangeRound([0, r1])
scaleBand(values, r1) == [domain |-> Distinct(values), r1 |-> r1]

BandLo(s) == IF s.r1[1] < 0 THEN s.r1[1] ELSE 0
BandHi(s) == IF s.r1[1] < 0 THEN 0 ELSE s.r1[1]
BandN(s) == IF Len(s.domain) < 1 THEN 1 ELSE Len(s.domain)
\* step = Math.floor((stop - start) / Math.max(1, n))
BandStep(s) == (BandHi(s) - BandLo(s)) \div BandN(s)
\* start = Math.round(start + (stop - start - step * n) * 0.5)
BandStart(s) ==
    RoundDiv(2 * BandLo(s) + (BandHi(s) - BandLo(s) - BandStep(s) * Len(s.domain)), 2)
\* xScale.bandwidth()
bandwidth(s) == Num(BandStep(s))
\* xScale(v): undefined for a value outside the domain
BandAt(s, v) ==
    IF \E i \in 1..Len(s.domain) : s.domain[i] = v
    THEN LET i == CHOOSE j \in 1..Len(s.domain) : s.domain[j] = v
             k == IF s.r1[1] < 0 THEN Len(s.domain) - i ELSE i - 1
         IN Num(BandStart(s) + BandStep(s) * k)
    ELSE NaN

\* d3.scaleLinear().domain([0, dmax]).rangeRound([r0, 0])
scaleLinear(dmax, r0) == [dmax |-> dmax, r0 |-> r0]

\* a collapsed domain [0, 0]: d3-scale before 2.2 returns the start of the
\* range, later versions the middle of it
Collapsed(r0, how) == IF how = "start" THEN r0 ELSE RoundDiv(r0, 2)

\* a linear scale whose range runs upwards, as with rangeRound([0, r0])
LinearAtUpright(s, v, how) ==
    IF ~IsNum(s.dmax) \/ ~IsNum(s.r0) THEN NaN
    ELSE IF s.dmax[1] = 0 THEN Num(Collapsed(s.r0[1], how))
    ELSE Num(RoundDiv(s.r0[1] * v, s.dmax[1]))

\* yScale(v) = Math.round(r0 * (1 - v / dmax)); NaN for a NaN domain
LinearAt(s, v, how) ==
    IF ~IsNum(s.dmax) \/ ~IsNum(s.r0) THEN NaN
    ELSE IF s.dmax[1] = 0 THEN Num(Collapsed(s.r0[1], how))
    ELSE Num(RoundDiv(s.r0[1] * (s.dmax[1] - v), s.dmax[1]))

\* ------------------------------------------------------------- the canvas
NoAttrs == [x |-> None, width |-> None, y |-> None, height |-> None]

\* the attributes the transition of a bar animates
Tweened(v) == IF v = "part_000" THEN {"x", "width", "y", "height"} ELSE {"y", "height"}

IsBar(n) == n.tag = "rect"
\* chart.selectAll('.bar'): positions of the elements of class bar
BarSelection(ns) == SelectSeq([i \in 1..Len(ns) |-> i], LAMBDA i : ns[i].cls = Some("bar"))

\* makeAxis('x', scale): the axis group, then its label
AxisX(born, cw, ch, m, xf) ==
    << [tag |-> "g", cls |-> Some("x-axis"), born |-> born, datum |-> None,
        text |-> None, from |-> [NoAttrs EXCEPT !.y = ch], to |-> NoAttrs,
        tr |-> "none", f |-> 0],
       [tag |-> "text", cls |-> None, born |-> born, datum |-> None,
        text |-> xf,
        from |-> [NoAttrs EXCEPT !.x = Num(cw[1] \div 2),
                                 !.y = Num(ch[1] + m[1].bottom - LabelLift)],
        to |-> NoAttrs, tr |-> "none", f |-> 0] >>

\* makeAxis('y', scale): the axis group, then its rotated label
AxisY(born, ch, m, yf) ==
    << [tag |-> "g", cls |-> Some("y-axis"), born |-> born, datum |-> None,
        text |-> None, from |-> NoAttrs, to |-> NoAttrs, tr |-> "none", f |-> 0],
       [tag |-> "text", cls |-> None, born |-> born, datum |-> None,
        text |-> yf,
        from |-> [NoAttrs EXCEPT !.x = Num(0 - (ch[1] \div 2)),
                                 !.y = Num(0 - m[1].left)],
        to |-> NoAttrs, tr |-> "none", f |-> 0] >>

\* the rect that enter().append('rect') creates for the datum d
EnterBar(v, born, d, xs, ys, ch, xf, how) ==
    IF v = "part_000"
    THEN [tag |-> "rect", cls |-> None, born |-> born, datum |-> Some(d),
          text |-> None,
          from |-> [NoAttrs EXCEPT !.height = Num(0), !.y = ch],
          to |-> [NoAttrs EXCEPT !.width = bandwidth(xs)],
          tr |-> "scheduled", f |-> 0]
    ELSE [tag |-> "rect", cls |-> Some("bar"), born |-> born, datum |-> Some(d),
          text |-> None,
          from |-> [x |-> BandAt(xs, d[xf[1]]), width |-> bandwidth(xs),
                    y |-> LinearAt(ys, 0, how),
                    height |-> Minus(ch, LinearAt(ys, 0, how))],
          to |-> NoAttrs,
          tr |-> "scheduled", f |-> 0]

\* selection.data(dataSet): the k-th selected element takes the k-th datum
Rebind(ns, dataSet) ==
    LET sel == BarSelection(ns)
    IN [i \in 1..Len(ns) |->
          IF \E k \in 1..Len(sel) : sel[k] = i /\ k <= Len(dataSet)
          THEN [ns[i] EXCEPT !.datum =
                   Some(dataSet[CHOOSE k \in 1..Len(sel) : sel[k] = i])]
          ELSE ns[i]]

\* .enter().append('rect'): one rect for every datum beyond the selection
EnterBars(v, born, ns, dataSet, xs, ys, ch, xf, how) ==
    LET have == Len(BarSelection(ns))
    IN [k \in 1..(IF Len(dataSet) > have THEN Len(dataSet) - have ELSE 0) |->
          EnterBar(v, born, dataSet[have + k], xs, ys, ch, xf, how)]

\* a draw that appends the entering bars before the axes
DrawNodesBarsFirst(v, born, ns, dataSet, xs, ys, cw, ch, m, xf, yf, how) ==
    Rebind(ns, dataSet) \o EnterBars(v, born, ns, dataSet, xs, ys, ch, xf, how)
      \o AxisX(born, cw, ch, m, xf) \o AxisY(born, ch, m, yf)

\* the canvas after draw(dataSet): axes first, then the entering bars
DrawNodes(v, born, ns, dataSet, xs, ys, cw, ch, m, xf, yf, how) ==
    Rebind(ns, dataSet) \o AxisX(born, cw, ch, m, xf) \o AxisY(born, ch, m, yf)
      \o EnterBars(v, born, ns, dataSet, xs, ys, ch, xf, how)

\* draw(dataSet) with the geometry cw, ch computed by the calling hook
draw(dataSet, cw, ch, m, xf, yf) ==
    /\ xData' = Some(getData(dataSet, xf[1]))
    /\ yData' = Some(getData(dataSet, yf[1]))
    /\ xScale' = Some(scaleBand(xData'[1], cw))
    /\ yScale' = Some(scaleLinear(Max(yData'[1]), ch))
    /\ nodes' = DrawNodes(variant, renders + 1, nodes, dataSet, xScale'[1],
                          yScale'[1], cw, ch, m, xf, yf, d3Collapsed)
    /\ drawn' = Append(drawn, dataSet)


\* ------------------------------------------------------------------ hooks
Init ==
    /\ variant \in Variants
    /\ d3Collapsed \in {"start", "mid"}
    /\ pc = "constructed"
    /\ \E copy \in IF variant = "barchart" THEN {"lib", "app"} ELSE {"part_000"} :
          /\ width = Some(Default(copy).width)
          /\ height = Some(Default(copy).height)
          /\ margins = Some(Default(copy).margins)
    /\ data = None /\ x = None /\ y = None
    /\ chartWidth = None /\ chartHeight = None
    /\ chart = None
    /\ xScale = None /\ yScale = None /\ xData = None /\ yData = None
    /\ nodes = << >>
    /\ error = "none"
    /\ drawn = << >>
    /\ changes = 0

\* a hook that recomputes chartWidth and leaves a computed chartHeight alone
GeometryWidthOnly ==
    /\ chartWidth' = Num(width'[1] - margins'[1].left - margins'[1].right)
    /\ chartHeight' = IF chartHeight = None
                      THEN Num(height'[1] - margins'[1].top - margins'[1].bottom)
                      ELSE chartHeight

\* chartWidth = width - margins.left - margins.right, and chartHeight alike
Geometry ==
    /\ chartWidth' = Num(width'[1] - margins'[1].left - margins'[1].right)
    /\ chartHeight' = Num(height'[1] - margins'[1].top - margins'[1].bottom)

\* the framework binds the changed inputs, then calls ngOnChanges()
ngOnChanges(cfg, d) ==
    /\ pc \in {"constructed", "alive", "failed"}
    /\ changes < MaxChanges
    /\ changes' = changes + 1
    /\ width' = Some(cfg.width)
    /\ height' = Some(cfg.height)
    /\ margins' = Some(cfg.margins)
    /\ data' = d
    /\ x' = Some("cat")
    /\ y' = Some("val")
    /\ Geometry
    /\ IF variant # "part_000" /\ chart # None /\ data' # None
       THEN draw(data'[1], chartWidth', chartHeight', margins', x', y')
       ELSE UNCHANGED <<scaleVars, nodes, drawn>>
    /\ pc' = IF pc = "constructed" THEN "bound" ELSE pc
    /\ error' = "none"
    /\ UNCHANGED <<variant, d3Collapsed, chart>>

\* ngOnInit(): throws without data, else makes the canvas and draws
ngOnInit ==
    /\ pc \in {"constructed", "bound"}
    /\ UNCHANGED <<variant, d3Collapsed, inputVars, changes>>
    /\ IF data = None
       THEN /\ error' = "Missing Data!"
            /\ pc' = "failed"
            /\ UNCHANGED <<chartWidth, chartHeight, chart, scaleVars, nodes, drawn>>
       ELSE /\ error' = "none"
            /\ pc' = "alive"
            /\ Geometry
            /\ chart' = Some("g")
            /\ draw(data[1], chartWidth', chartHeight', margins, x, y)

\* ngOnDestroy(): every field is set to null, the canvas is left as it is
ngOnDestroy ==
    /\ variant # "part_000"
    /\ pc \in {"alive", "failed"}
    /\ pc' = "destroyed"
    /\ width' = None /\ height' = None /\ margins' = None
    /\ data' = None /\ x' = None /\ y' = None
    /\ chartWidth' = None /\ chartHeight' = None
    /\ chart' = None
    /\ xScale' = None /\ yScale' = None /\ xData' = None /\ yData' = None
    /\ error' = "none"
    /\ UNCHANGED <<variant, d3Collapsed, nodes, drawn, changes>>

\* ------------------------------------------------------------ transitions
\* null attributes count as 0 when a number is interpolated from them
FromZero(a) == IF a = None THEN Num(0) ELSE a

\* the first timer callback of a bar's transition evaluates the targets with
\* the component's fields as they are then
StartTween(n) ==
    LET v == n.datum[1][y[1]]
        ty == LinearAt(yScale[1], v, d3Collapsed)
        th == Minus(chartHeight, ty)
    IN IF variant = "part_000"
       THEN [n EXCEPT !.tr = "running",
                      !.from = [n.from EXCEPT !.x = FromZero(n.from.x),
                                              !.width = FromZero(n.from.width)],
                      !.to = [x |-> BandAt(xScale[1], n.datum[1][x[1]]),
                              width |-> n.to.width, y |-> ty, height |-> th]]
       ELSE [n EXCEPT !.tr = "running",
                      !.to = [n.to EXCEPT !.y = ty, !.height = th]]

\* one timer callback on the element n
TimerStep(n) ==
    IF n.tr = "scheduled"
    THEN IF yScale = None THEN [n EXCEPT !.tr = "failed"] ELSE StartTween(n)
    ELSE IF n.tr = "running"
    THEN [n EXCEPT !.f = n.f + 1,
                   !.tr = IF n.f + 1 = Frames THEN "ended" ELSE "running",
                   !.cls = IF variant = "part_000" THEN Some("bar") ELSE n.cls]
    ELSE n

\* the timer runs the callbacks of all pending transitions
TimerFlush ==
    /\ \E i \in 1..Len(nodes) : nodes[i].tr \in {"scheduled", "running"}
    /\ nodes' = [i \in 1..Len(nodes) |-> TimerStep(nodes[i])]
    /\ UNCHANGED <<variant, d3Collapsed, pc, inputVars, chartWidth, chartHeight,
                   chart, scaleVars, error, drawn, changes>>

Next ==
    \/ \E cfg \in Configs, d \in DataInputs : ngOnChanges(cfg, d)
    \/ ngOnInit
    \/ ngOnDestroy
    \/ TimerFlush

Spec == Init /\ [][Next]_vars

\* ------------------------------------------------- vocabulary of the claims
Bars(ns) == SelectSeq(ns, IsBar)
Count(ns, Test(_)) == Len(SelectSeq(ns, Test))
IsXAxis(n) == n.tag = "g" /\ n.cls = Some("x-axis")
IsYAxis(n) == n.tag = "g" /\ n.cls = Some("y-axis")
IsLabel(n) == n.tag = "text"
InFlight(n) == n.tr \in {"scheduled", "running"}

\* a step of ngOnChanges or of ngOnInit
HookStep ==
    \/ changes' # changes
    \/ pc \in {"constructed", "bound"} /\ pc' \in {"alive", "failed"}
\* a step in which draw ran
DrawStep == renders' = renders + 1
\* the elements a step appended to the canvas
NewNodes == SubSeq(nodes', Len(nodes) + 1, Len(nodes'))
\* d2 is d1 with the Y value of exactly one record changed
OneYChanged(d1, d2) ==
    /\ Len(d1) = Len(d2)
    /\ \A i \in 1..Len(d1) : d1[i].cat = d2[i].cat
    /\ Cardinality({i \in 1..Len(d1) : d1[i].val # d2[i].val}) = 1

\* every draw so far had a positive plotting area and a non-empty dataset:
\* no draw that C5 or C6 want rejected took place
CleanRun ==
    /\ \A k \in 1..Len(drawn) : drawn[k] # << >>
    /\ \A i \in 1..Len(nodes) :
          /\ IsXAxis(nodes[i]) => nodes[i].from.y[1] > 0
          /\ (IsLabel(nodes[i]) /\ nodes[i].text = Some("cat"))
                => nodes[i].from.x[1] > 0

\* C1: after any sequence of renders the canvas holds exactly one bar per
\* record of the dataset rendered last, each created by the last draw.
C1_OneFreshBarPerRecord ==
    (renders > 0 /\ CleanRun) =>
        /\ Len(Bars(nodes)) = Len(drawn[renders])
        /\ \A i \in 1..Len(nodes) : IsBar(nodes[i]) => nodes[i].born = renders

\* C2: rendered with D1 and again with D2 (D1 with one Y value changed), every
\* bar i ends, once the animation has finished, at y = linearScale_D2(D2[i].val)
\* and height = chartHeight - linearScale_D2(D2[i].val).
C2_RerenderReflectsData ==
    ( /\ renders >= 2
      /\ CleanRun
      /\ yScale # None
      /\ OneYChanged(drawn[renders - 1], drawn[renders])
      /\ \A i \in 1..Len(nodes) : ~InFlight(nodes[i]) )
    => LET D2 == drawn[renders]
           bs == Bars(nodes)
       IN /\ Len(bs) = Len(D2)
          /\ \A i \in 1..Len(bs) :
                LET ty == LinearAt(yScale[1], D2[i].val, d3Collapsed)
                IN /\ bs[i].tr = "ended"
                   /\ bs[i].to.y = ty
                   /\ bs[i].to.height = Minus(yScale[1].r0, ty)

\* C3: after any number of renders the canvas holds exactly one bottom axis
\* and one left axis, each with one text label.
C3_TwoAxes ==
    (renders > 0 /\ CleanRun) =>
        /\ Count(nodes, IsXAxis) = 1
        /\ Count(nodes, IsYAxis) = 1
        /\ Count(nodes, IsLabel) = 2

\* C4: every ngOnInit and ngOnChanges made while the dataset is absent fails
\* with the missing-data error, having computed no geometry and drawn nothing.
C4_NoDataFails ==
    [][ (HookStep /\ data' = None) =>
            /\ error' = "Missing Data!"
            /\ UNCHANGED <<chartWidth, chartHeight, chart, nodes>> ]_vars

\* C5: a render with a present but empty dataset raises a DataError, builds no
\* linear scale with a NaN bound and appends neither axes nor bars.
C5_EmptyDataFails ==
    [][ (HookStep /\ data' = Some(<< >>)) =>
            /\ error' = "DataError"
            /\ UNCHANGED <<yScale, nodes>> ]_vars

\* C6: a render whose config leaves a non-positive plotting area is rejected
\* with a ConfigError; no axis or bar is drawn while chartWidth <= 0 or
\* chartHeight <= 0.
C6_BadConfigFails ==
    [][ /\ (HookStep /\ (width'[1] <= margins'[1].left + margins'[1].right
                         \/ height'[1] <= margins'[1].top + margins'[1].bottom))
           => error' = "ConfigError"
        /\ Len(nodes') > Len(nodes)
           => chartWidth'[1] > 0 /\ chartHeight'[1] > 0 ]_vars

\* what C7 says of the draw of a non-empty dataset
ZeroBaseline ==
    LET ys == getData(data'[1], y'[1])
    IN /\ yScale'[1].dmax = Max(ys)
       /\ LinearAt(yScale'[1], 0, d3Collapsed) = chartHeight'
       /\ LinearAt(yScale'[1], Max(ys)[1], d3Collapsed) = Num(0)
       /\ \A k \in 1..Len(NewNodes) :
             IsBar(NewNodes[k]) => /\ NewNodes[k].from.y = chartHeight'
                                   /\ NewNodes[k].from.height = Num(0)

\* C7 as claimed: for every non-empty dataset the linear scale of a draw has
\* domain [0, max(Y)], maps 0 to chartHeight and max(Y) to 0, and every bar
\* enters at y = chartHeight with height 0.
C7_ZeroBaselineAlways ==
    [][ (DrawStep /\ CleanRun') => ZeroBaseline ]_vars

\* C7 as amended: the same for every non-empty dataset whose max(Y) is not 0.
C7_ZeroBaseline ==
    [][ (DrawStep /\ data'[1] # << >> /\ Max(getData(data'[1], y'[1])) # Num(0))
            => ZeroBaseline ]_vars

\* C7 witness: an all-negative dataset was drawn and its bars wait at the
\* baseline.
C7_Witness ==
    /\ renders > 0
    /\ yScale # None /\ chartHeight[1] > 0
    /\ drawn[renders] = Rows(<<0 - 5, 0 - 2>>)
    /\ yScale[1].dmax = Num(0 - 2)
    /\ \E i \in 1..Len(nodes) :
          /\ IsBar(nodes[i]) /\ nodes[i].born = renders
          /\ nodes[i].tr = "scheduled"
          /\ nodes[i].from.y = chartHeight /\ nodes[i].from.height = Num(0)

\* chartWidth and chartHeight agree with the inputs as they are now
GeometryFresh ==
    chartWidth # None =>
        /\ width # None /\ height # None /\ margins # None /\ chartHeight # None
        /\ chartWidth[1] + margins[1].left + margins[1].right = width[1]
        /\ chartHeight[1] + margins[1].top + margins[1].bottom = height[1]

\* the scales and the bottom axis of a draw use the geometry of the inputs
DrawUsesGeometry ==
    /\ xScale'[1].r1 = Num(width'[1] - margins'[1].left - margins'[1].right)
    /\ yScale'[1].r0 = Num(height'[1] - margins'[1].top - margins'[1].bottom)
    /\ \A k \in 1..Len(NewNodes) :
          IsXAxis(NewNodes[k]) =>
             NewNodes[k].from.y = Num(height'[1] - margins'[1].top - margins'[1].bottom)

\* C8: after every hook that computes the geometry, chartWidth + left + right
\* = width and chartHeight + top + bottom = height for the current inputs, no
\* state has one of the two stale, and every draw uses that geometry.
C8_GeometryFresh ==
    /\ []GeometryFresh
    /\ [][ /\ (HookStep /\ error' = "none") => chartWidth' # None
           /\ DrawStep => DrawUsesGeometry ]_vars

\* C8 witness: a re-render under a changed valid config; the first draw put
\* its bottom axis elsewhere.
C8_Witness ==
    /\ renders = 2
    /\ chartHeight = Num(280) /\ chartWidth = Num(280)
    /\ \E i, j \in 1..Len(nodes) :
          /\ IsXAxis(nodes[i]) /\ nodes[i].born = 1 /\ nodes[i].from.y = Num(500)
          /\ IsXAxis(nodes[j]) /\ nodes[j].born = 2 /\ nodes[j].from.y = chartHeight

\* C9: a draw that arrives while a transition is in flight abandons it: every
\* bar on the canvas restarts from the baseline under the new draw, and from
\* then on no element of an earlier draw is moved.
C9_LastDrawWins ==
    [][ /\ (DrawStep /\ CleanRun' /\ \E i \in 1..Len(nodes) : InFlight(nodes[i]))
           => \A i \in 1..Len(nodes') :
                 IsBar(nodes'[i]) =>
                    /\ nodes'[i].born = renders'
                    /\ nodes'[i].tr = "scheduled"
                    /\ nodes'[i].from.y = LinearAt(yScale'[1], 0, d3Collapsed)
        /\ (renders' = renders /\ CleanRun)
           => \A i \in 1..Len(nodes) :
                 nodes'[i] # nodes[i] => nodes[i].born = renders ]_vars

\* the canvas after a draw: earlier elements stay where they are, then come
\* the bottom axis, its label, the left axis, its label, then the new bars,
\* each at the baseline geometry base(k) with its transition enqueued
RenderInOrder(base(_)) ==
    /\ Len(nodes') >= Len(nodes) + 4
    /\ \A i \in 1..Len(nodes) :
          nodes'[i] = [nodes[i] EXCEPT !.datum = nodes'[i].datum]
    /\ IsXAxis(NewNodes[1]) /\ IsLabel(NewNodes[2])
    /\ IsYAxis(NewNodes[3]) /\ IsLabel(NewNodes[4])
    /\ \A k \in 5..Len(NewNodes) :
          /\ IsBar(NewNodes[k])
          /\ NewNodes[k].datum = Some(data'[1][Len(Bars(nodes)) + k - 4])
          /\ NewNodes[k].tr = "scheduled" /\ NewNodes[k].f = 0
          /\ NewNodes[k].from.y = base(k).y
          /\ NewNodes[k].from.height = base(k).height

\* the baseline taken from the scale: y = linearScale(0), height = chartHeight -
\* linearScale(0), with the scale of this render's Y series
ScaleBaseline(k) ==
    LET s == scaleLinear(Max(getData(data'[1], y'[1])), chartHeight')
    IN [y |-> LinearAt(s, 0, d3Collapsed),
        height |-> Minus(chartHeight', LinearAt(s, 0, d3Collapsed))]

\* the baseline of a copy of the component: part_000 sets y = chartHeight and
\* height = 0 without asking the scale
CopyBaseline(k) ==
    IF variant = "part_000"
    THEN [y |-> chartHeight', height |-> Num(0)]
    ELSE ScaleBaseline(k)

\* C10 as claimed: every render extracts the series, builds the scales, draws
\* the bottom axis, the left axis, then creates the bars at y = linearScale(0),
\* height = chartHeight - linearScale(0), and returns with the transition
\* enqueued.
C10_OrderScaleBaseline ==
    [][ (DrawStep /\ CleanRun') => RenderInOrder(ScaleBaseline) ]_vars

\* C10 as amended: the same, with the baseline y = chartHeight, height = 0 in
\* part_000.
C10_Order == [][ DrawStep => RenderInOrder(CopyBaseline) ]_vars

\* C10 witness: a re-render appended its axes and after them a new bar that
\* waits at the baseline.
C10_Witness ==
    /\ renders = 2
    /\ CleanRun
    /\ \E i, j \in 1..Len(nodes) :
          /\ i < j
          /\ IsLabel(nodes[i]) /\ nodes[i].born = 2
          /\ IsBar(nodes[j]) /\ nodes[j].born = 2 /\ nodes[j].tr = "scheduled"
          /\ nodes[j].from.height = Num(0)

=============================================================================
